---- MODULE Spec2Model ----
(***************************************************************************)
(* CANalyzer Mimic Pro (src/src/canalyzer_mimic.py): the CANLogAnalyzer    *)
(* object as a state machine.  One action per Tk callback (Proceed,        *)
(* load_file, choose_color, plot_data, clear_data); the pandas calls the   *)
(* callbacks make are operators over character sequences.                  *)
(*                                                                         *)
(* Text is a sequence of one-character strings, so that splitting,         *)
(* trimming and case folding are computed and not assumed.  A missing      *)
(* value (None / NaN) is the empty sequence NoneVal; a present number n is *)
(* <<n>>.  Numeric tokens are unsigned decimal integers: the model has no  *)
(* fractions, signs or exponents.                                          *)
(***************************************************************************)
EXTENDS Integers, Sequences, FiniteSets, TLC

VARIABLES
    widgets,          \* names of the live children of self.root
    file_label_text,  \* text of the widget self.file_label refers to
    listbox,          \* items of the widget self.signal_listbox refers to
    log_file,         \* self.log_file: "" or the chosen path
    input,            \* the lines read_csv parsed in the last load_file call
    df,               \* self.df
    colors,           \* self.colors
    selected,         \* selected_signals of the last plot_data call
    fig,              \* the axes handed to matplotlib by the last plot
    msg,              \* dialog or callback error raised by the last callback
    lastOp            \* the callback that ran last

vars == <<widgets, file_label_text, listbox, log_file, input, df, colors, selected, fig,
          msg, lastOp>>

-----------------------------------------------------------------------------
(* Bounds of the model *)

MaxLines == 2
MaxTokens == 9
MaxSel == 2

(* Program constants *)

NumBytes == 8
NumNames == 4

-----------------------------------------------------------------------------
(* Text *)

NoneVal == <<>>

Some(v) == <<v>>

Digits == <<"0", "1", "2", "3", "4", "5", "6", "7", "8", "9">>

IsSpace(c) == c \in {" ", "\t"}

IsDigit(c) == \E i \in 1..10 : Digits[i] = c

DigitVal(c) == (CHOOSE i \in 1..10 : Digits[i] = c) - 1

UpperChar(c) ==
    CASE c = "a" -> "A"
      [] c = "b" -> "B"
      [] c = "x" -> "X"
      [] c = "z" -> "Z"
      [] OTHER -> c

Upper(s) == [i \in 1..Len(s) |-> UpperChar(s[i])]

RECURSIVE LStrip(_)
LStrip(s) ==
    IF s # <<>> /\ IsSpace(Head(s)) THEN LStrip(Tail(s)) ELSE s

RECURSIVE RStrip(_)
RStrip(s) ==
    IF s # <<>> /\ IsSpace(s[Len(s)]) THEN RStrip(SubSeq(s, 1, Len(s) - 1)) ELSE s

Strip(s) == RStrip(LStrip(s))

(* re.split(r'\s+', s): cut at every maximal run of whitespace. *)
RECURSIVE ReSplitWS(_, _)
ReSplitWS(s, cur) ==
    IF s = <<>> THEN <<cur>>
    ELSE IF IsSpace(Head(s))
         THEN <<cur>> \o ReSplitWS(LStrip(s), <<>>)
         ELSE ReSplitWS(Tail(s), Append(cur, Head(s)))

(* str.split(' '): cut at every single space, empty pieces kept. *)
RECURSIVE SplitSpace(_, _)
SplitSpace(s, cur) ==
    IF s = <<>> THEN <<cur>>
    ELSE IF Head(s) = " "
         THEN <<cur>> \o SplitSpace(Tail(s), <<>>)
         ELSE SplitSpace(Tail(s), Append(cur, Head(s)))

IsNumeric(t) == t # <<>> /\ \A i \in 1..Len(t) : IsDigit(t[i])

RECURSIVE ToNumber(_)
ToNumber(t) ==
    IF t = <<>> THEN 0 ELSE 10 * ToNumber(SubSeq(t, 1, Len(t) - 1)) + DigitVal(t[Len(t)])

(* Python compares strings by code point: tab, space, digits, upper, lower. *)
CharOrder == <<"\t", " ", "0", "1", "2", "3", "4", "5", "6", "7", "8", "9",
               "A", "B", "X", "Z", "a", "b", "x", "z">>

Code(c) == CHOOSE i \in 1..Len(CharOrder) : CharOrder[i] = c

RECURSIVE StrLess(_, _)
StrLess(s, t) ==
    IF t = <<>> THEN FALSE
    ELSE IF s = <<>> THEN TRUE
    ELSE IF Head(s) = Head(t) THEN StrLess(Tail(s), Tail(t))
    ELSE Code(Head(s)) < Code(Head(t))

-----------------------------------------------------------------------------
(* pandas.read_csv(sep=r'\s+', names=[4 names], engine='python') *)

(* The python engine's reader for a regular-expression separator:         *)
(* pat.split(line.strip()) for every line of the file.                    *)
Tokenize(line) == ReSplitWS(Strip(line), <<>>)

(* skip_blank_lines: a line that splits into one empty field is dropped.  *)
IsBlankRow(r) == Len(r) = 1 /\ r[1] = <<>>

ReadRows(lines) ==
    SelectSeq([i \in 1..Len(lines) |-> Tokenize(lines[i])], LAMBDA r : ~IsBlankRow(r))

(* With no header and fewer names than the first row has fields, the      *)
(* leading surplus fields become the index.                               *)
ImplicitFirstCols(rows) ==
    IF rows # <<>> /\ Len(rows[1]) > NumNames THEN Len(rows[1]) - NumNames ELSE 0

ColLen(rows) == NumNames + ImplicitFirstCols(rows)

(* A row with more fields than col_len is a ParserError (on_bad_lines =   *)
(* 'error'); a row with fewer is padded with missing values.              *)
HasBadLine(rows) == \E i \in 1..Len(rows) : Len(rows[i]) > ColLen(rows)

Cell(row, j) == IF j <= Len(row) THEN row[j] ELSE NoneVal

RawRecord(row, k) ==
    [Timestamp |-> Cell(row, k + 1), ID |-> Cell(row, k + 2),
     DLC |-> Cell(row, k + 3), Data |-> Cell(row, k + 4)]

RawRows(rows) == [i \in 1..Len(rows) |-> RawRecord(rows[i], ImplicitFirstCols(rows))]

EmptyDF == [cols |-> "none", rows |-> <<>>]

ReadCsv(lines) == [cols |-> "raw", rows |-> RawRows(ReadRows(lines))]

(* self.df['Timestamp'].astype(float): a ValueError when a present field  *)
(* is no number.                                                          *)
TimestampsConvertible(d) ==
    \A i \in 1..Len(d.rows) :
        d.rows[i].Timestamp = NoneVal \/ IsNumeric(d.rows[i].Timestamp)

AsFloat(t) == IF t = NoneVal THEN NoneVal ELSE Some(ToNumber(t))

-----------------------------------------------------------------------------
(* split_data_column *)

Pieces(data) == IF data = NoneVal THEN <<>> ELSE SplitSpace(data, <<>>)

RECURSIVE MaxPieces(_)
MaxPieces(rows) ==
    IF rows = <<>> THEN 0
    ELSE LET n == Len(Pieces(Head(rows).Data))
             m == MaxPieces(Tail(rows))
         IN IF n > m THEN n ELSE m

(* pd.to_numeric(..., errors='coerce') *)
ToNumeric(p) == IF IsNumeric(p) THEN Some(ToNumber(p)) ELSE NoneVal

(* str.split(' ', expand=True) gives one column per piece of the longest  *)
(* row; reindex(columns=range(8)) keeps columns 0..7 and adds the absent  *)
(* ones as NaN.                                                            *)
ByteCell(data, i, width) ==
    IF i <= width /\ i <= Len(Pieces(data)) THEN ToNumeric(Pieces(data)[i]) ELSE NoneVal

(* Mutant of SplitBytes: reindex fills the absent columns with 0. *)
SplitBytes_FillZero(data, width) ==
    [i \in 1..NumBytes |-> IF i <= width THEN ByteCell(data, i, width) ELSE Some(0)]

SplitBytes(data, width) == [i \in 1..NumBytes |-> ByteCell(data, i, width)]

BuiltRecord(r, width) ==
    [Timestamp |-> AsFloat(r.Timestamp), ID |-> r.ID, DLC |-> r.DLC, Data |-> r.Data,
     Byte |-> SplitBytes(r.Data, width)]

SplitDataColumn(d) ==
    [cols |-> "built",
     rows |-> [i \in 1..Len(d.rows) |-> BuiltRecord(d.rows[i], MaxPieces(d.rows))]]

-----------------------------------------------------------------------------
(* The listing of create_signal_selection_window *)

IdColumn(d) == [i \in 1..Len(d.rows) |-> d.rows[i].ID]

(* Series.unique(): first occurrences, in order, a missing value included. *)
RECURSIVE Unique(_)
Unique(s) ==
    IF s = <<>> THEN <<>>
    ELSE LET init == Unique(SubSeq(s, 1, Len(s) - 1))
             last == s[Len(s)]
         IN IF \E i \in 1..Len(init) : init[i] = last THEN init ELSE Append(init, last)

RECURSIVE Insert(_, _)
Insert(x, s) ==
    IF s = <<>> THEN <<x>>
    ELSE IF StrLess(x, Head(s)) THEN <<x>> \o s
    ELSE <<Head(s)>> \o Insert(x, Tail(s))

RECURSIVE Sorted(_)
Sorted(s) == IF s = <<>> THEN <<>> ELSE Insert(Head(s), Sorted(Tail(s)))

(* sorted() compares a missing value with a string and raises TypeError.   *)
SortRaises(u) == Len(u) >= 2 /\ \E i \in 1..Len(u) : u[i] = NoneVal

(* insert(END, None) passes Tk no element: nothing is inserted.            *)
ListboxItems(d) == SelectSeq(Sorted(Unique(IdColumn(d))), LAMBDA x : x # NoneVal)

-----------------------------------------------------------------------------
(* Widgets *)

WelcomeWidgets == {"welcome_label", "author_label", "image_label", "proceed_btn"}

FileWidgets == {"select_file_btn", "file_label"}

ListWidgets == {"id_label", "signal_listbox"}

SignalWidgets == ListWidgets \cup {"color_btn", "plot_btn", "clear_btn"}

-----------------------------------------------------------------------------
(* Inputs: the lines a log file may hold, two to five fields each (a      *)
(* valid line with each case of ID, a line with extra whitespace, a       *)
(* non-numeric timestamp, a truncated line, a line with a surplus field,  *)
(* a blank line).  No field is one of pandas' spellings of a missing      *)
(* value ("NA", "nan", ...).                                              *)

LineSet ==
    { <<"1", " ", "a", " ", "8", " ", "5">>,
      <<" ", "2", " ", " ", "A", "\t", "8", " ", "x", " ">>,
      <<"x", " ", "a", " ", "8", " ", "5">>,
      <<"3", " ", "4">>,
      <<"1", " ", "2", " ", "a", " ", "8", " ", "5">>,
      <<" ">> }

Files == UNION { [1..n -> LineSet] : n \in 0..MaxLines }

NoInput == [lines |-> <<>>, parsed |-> FALSE]

Colours == {"#ff0000"}

NoColors == [s \in {} |-> "#ff0000"]

-----------------------------------------------------------------------------
Init ==
    /\ widgets = WelcomeWidgets
    /\ file_label_text = ""
    /\ listbox = <<>>
    /\ log_file = ""
    /\ input = NoInput
    /\ df = EmptyDF
    /\ colors = NoColors
    /\ selected = <<>>
    /\ fig = <<>>
    /\ msg = "none"
    /\ lastOp = "create_welcome_window"

(* Proceed button: create_file_selection_window *)
Proceed ==
    /\ "proceed_btn" \in widgets
    /\ widgets' = FileWidgets
    /\ file_label_text' = "No file selected"
    /\ msg' = "none"
    /\ lastOp' = "create_file_selection_window"
    /\ UNCHANGED <<listbox, log_file, input, df, colors, selected, fig>>

(* Mutant of DfAfterCancel: the cancelled dialog resets the table. *)
DfAfterCancel_Reset(d) == EmptyDF

(* load_file, lines 101-102: a cancelled dialog leaves self.df alone. *)
DfAfterCancel(d) == d

(* load_file, lines 84-100, for a chosen path whose file holds `lines`. *)
LoadSelected(lines) ==
    LET rows  == ReadRows(lines)
        raw   == ReadCsv(lines)
        built == SplitDataColumn(raw)
    IN IF HasBadLine(rows)
       THEN \* read_csv raises ParserError before self.df is assigned
            /\ input' = NoInput
            /\ msg' = "error_load"
            /\ UNCHANGED <<widgets, file_label_text, listbox, df>>
       ELSE IF ~TimestampsConvertible(raw)
       THEN \* astype(float) raises after self.df was assigned at line 86
            /\ input' = [lines |-> lines, parsed |-> TRUE]
            /\ df' = raw
            /\ msg' = "error_load"
            /\ UNCHANGED <<widgets, file_label_text, listbox>>
       ELSE IF SortRaises(Unique(IdColumn(built)))
       THEN \* sorted() raises inside create_signal_selection_window
            /\ input' = [lines |-> lines, parsed |-> TRUE]
            /\ df' = built
            /\ file_label_text' = "Loaded file"
            /\ widgets' = ListWidgets
            /\ listbox' = <<>>
            /\ msg' = "error_load"
       ELSE /\ input' = [lines |-> lines, parsed |-> TRUE]
            /\ df' = built
            /\ file_label_text' = "Loaded file"
            /\ widgets' = SignalWidgets
            /\ listbox' = ListboxItems(built)
            /\ msg' = "none"

(* Select CAN Log File button: load_file.  The dialog returns no path, or *)
(* a path that cannot be read, or a path whose file holds `lines`.        *)
LoadFile ==
    /\ "select_file_btn" \in widgets
    /\ lastOp' = "load_file"
    /\ UNCHANGED <<colors, selected, fig>>
    /\ \/ /\ log_file' = ""
          /\ input' = NoInput
          /\ df' = DfAfterCancel(df)
          /\ file_label_text' = "No file selected"
          /\ msg' = "none"
          /\ UNCHANGED <<widgets, listbox>>
       \/ /\ log_file' = "log.txt"
          /\ input' = NoInput
          /\ msg' = "error_load"
          /\ UNCHANGED <<widgets, file_label_text, listbox, df>>
       \/ \E lines \in Files :
              /\ log_file' = "log.txt"
              /\ LoadSelected(lines)

(* The items of the listbox at the selected indices, in index order. *)
SelectedSignals(items, sel) ==
    LET keep == [i \in 1..Len(items) |-> IF i \in sel THEN <<items[i]>> ELSE <<>>]
        F[i \in 0..Len(items)] == IF i = 0 THEN <<>> ELSE F[i - 1] \o keep[i]
    IN F[Len(items)]

(* Choose Color button: choose_color *)
ChooseColor ==
    /\ "color_btn" \in widgets
    /\ \E sel \in SUBSET (1..Len(listbox)) :
         \E pick \in [sel -> Colours \cup {"cancel"}] :
           LET chosen == {i \in sel : pick[i] # "cancel"}
               keys   == DOMAIN colors \cup {listbox[i] : i \in chosen}
           IN colors' = [s \in keys |->
                           IF \E i \in chosen : listbox[i] = s
                           THEN pick[CHOOSE i \in chosen : listbox[i] = s]
                           ELSE colors[s]]
    /\ msg' = "none"
    /\ lastOp' = "choose_color"
    /\ UNCHANGED <<widgets, file_label_text, listbox, log_file, input, df, selected, fig>>

-----------------------------------------------------------------------------
(* plot_data *)

(* Mutant of Matches: the stored ID is trimmed but not upper-cased. *)
Matches_NoFold(id, signal) == id # NoneVal /\ Strip(id) = Upper(signal)

(* line 166: self.df['ID'].str.strip().str.upper() == signal.upper();     *)
(* a missing ID compares unequal.                                          *)
Matches(id, signal) == id # NoneVal /\ Upper(Strip(id)) = Upper(signal)

Filtered(d, signal) == SelectSeq(d.rows, LAMBDA r : Matches(r.ID, signal))

(* line 159: Series.max() skips missing values; NoneVal when none is left. *)
RECURSIVE MaxTimestamp(_)
MaxTimestamp(rows) ==
    IF rows = <<>> THEN NoneVal
    ELSE LET m == MaxTimestamp(Tail(rows))
             t == Head(rows).Timestamp
         IN IF t = NoneVal THEN m
            ELSE IF m = NoneVal THEN t
            ELSE IF t[1] > m[1] THEN t ELSE m

(* Mutant of XLim: the limit is the timestamp of the last row. *)
XLim_LastRow(d) == <<0, MaxTimestamp(<<d.rows[Len(d.rows)]>>)[1]>>

(* line 175: ax.set_xlim(0, last_timestamp) *)
XLim(d) == <<0, MaxTimestamp(d.rows)[1]>>

(* line 170: self.colors.get(signal, None) *)
ColorOf(c, signal) == IF signal \in DOMAIN c THEN c[signal] ELSE "None"

(* Mutant of Axis: a missing byte is dropped from its channel. *)
Axis_DropMissing(d, c, signal) ==
    LET f == Filtered(d, signal)
        ch(i) == [k \in 1..Len(f) |-> f[k].Byte[i]]
    IN [signal |-> signal, plotted |-> f # <<>>,
        x |-> [k \in 1..Len(f) |-> f[k].Timestamp],
        y |-> [i \in 1..NumBytes |-> SelectSeq(ch(i), LAMBDA v : v # NoneVal)],
        xlim |-> IF f = <<>> THEN NoneVal ELSE XLim(d),
        color |-> IF f = <<>> THEN "None" ELSE ColorOf(c, signal)]

(* lines 166-177 for one axis: the eight lines plotted on it, or nothing   *)
(* when no row matches (continue).                                         *)
Axis(d, c, signal) ==
    LET f == Filtered(d, signal)
    IN IF f = <<>>
       THEN [signal |-> signal, plotted |-> FALSE, x |-> <<>>,
             y |-> [i \in 1..NumBytes |-> <<>>], xlim |-> NoneVal, color |-> "None"]
       ELSE [signal |-> signal, plotted |-> TRUE,
             x |-> [k \in 1..Len(f) |-> f[k].Timestamp],
             y |-> [i \in 1..NumBytes |-> [k \in 1..Len(f) |-> f[k].Byte[i]]],
             xlim |-> XLim(d), color |-> ColorOf(c, signal)]

(* Mutant of Axes: the loop stops at the first signal without rows. *)
Axes_StopAtAbsent(d, c, sigs) ==
    [k \in 1..Len(sigs) |->
        IF \E j \in 1..k : Filtered(d, sigs[j]) = <<>>
        THEN Axis(d, c, <<"z">>) ELSE Axis(d, c, sigs[k])]

(* lines 165-177: one axis per selected signal, in selection order. *)
Axes(d, c, sigs) == [k \in 1..Len(sigs) |-> Axis(d, c, sigs[k])]

(* set_xlim rejects a NaN limit: reached when a row matches and no         *)
(* timestamp is present.                                                   *)
PlotRaises(d, sigs) ==
    /\ MaxTimestamp(d.rows) = NoneVal
    /\ \E k \in 1..Len(sigs) : Filtered(d, sigs[k]) # <<>>

(* plot_data, lines 151-180, for the selection the listbox reports. *)
PlotDataWith(sigs) ==
    /\ lastOp' = "plot_data"
    /\ selected' = sigs
    /\ IF sigs = <<>>
       THEN msg' = "warn_select" /\ fig' = fig
       ELSE IF df.rows = <<>>
       THEN msg' = "warn_no_file" /\ fig' = fig
       ELSE IF PlotRaises(df, sigs)
       THEN msg' = "callback_exception" /\ fig' = fig
       ELSE msg' = "none" /\ fig' = Axes(df, colors, sigs)
    /\ UNCHANGED <<widgets, file_label_text, listbox, log_file, input, df, colors>>

(* Plot Data button: plot_data *)
PlotData ==
    /\ "plot_btn" \in widgets
    /\ \E sel \in SUBSET (1..Len(listbox)) : PlotDataWith(SelectedSignals(listbox, sel))

(* Clear button: clear_data.  self.file_label.config raises TclError when  *)
(* the label was destroyed by clear_window; the statements after it do not *)
(* run.                                                                    *)
ClearData ==
    /\ "clear_btn" \in widgets
    /\ lastOp' = "clear_data"
    /\ df' = EmptyDF
    /\ IF "file_label" \in widgets
       THEN /\ file_label_text' = "No file selected"
            /\ listbox' = <<>>
            /\ colors' = NoColors
            /\ msg' = "none"
       ELSE /\ msg' = "callback_exception"
            /\ UNCHANGED <<file_label_text, listbox, colors>>
    /\ UNCHANGED <<widgets, log_file, input, selected, fig>>

Next == Proceed \/ LoadFile \/ ChooseColor \/ PlotData \/ ClearData

Spec == Init /\ [][Next]_vars

-----------------------------------------------------------------------------
(* plot_data as a query: the listbox widget reports the selection, and the *)
(* handler is run for every selection over the identifier universe, also   *)
(* identifiers the table does not hold.                                    *)

IdUniverse == { <<"a">>, <<"A">>, <<"4">>, <<"z">> }

SelSeqs == UNION { [1..n -> IdUniverse] : n \in 0..MaxSel }

Query ==
    /\ "plot_btn" \in widgets
    /\ \E sigs \in SelSeqs : PlotDataWith(sigs)

NextQuery == Proceed \/ LoadFile \/ Query

SpecQuery == Init /\ [][NextQuery]_vars

-----------------------------------------------------------------------------
(* split_data_column as a function of the Data column: a two-row frame     *)
(* whose first Data field is any list of up to MaxTokens tokens joined by  *)
(* single spaces (an empty token is two adjacent spaces).                  *)

TokenSet == { <<"1", "2">>, <<"x">>, <<>> }

TokenLists == UNION { [1..n -> TokenSet] : n \in 1..MaxTokens }

RECURSIVE JoinTokens(_)
JoinTokens(toks) ==
    IF Len(toks) = 1 THEN toks[1]
    ELSE toks[1] \o <<" ">> \o JoinTokens(Tail(toks))

RawFrame(data) ==
    [cols |-> "raw",
     rows |-> << [Timestamp |-> <<"1">>, ID |-> <<"a">>, DLC |-> <<"8">>, Data |-> data],
                 [Timestamp |-> <<"2">>, ID |-> <<"a">>, DLC |-> <<"8">>,
                  Data |-> <<"7", " ", "5">>] >>]

InitSplit ==
    /\ widgets = FileWidgets
    /\ file_label_text = "No file selected"
    /\ listbox = <<>>
    /\ log_file = "log.txt"
    /\ input = NoInput
    /\ \E toks \in TokenLists : df = RawFrame(JoinTokens(toks))
    /\ colors = NoColors
    /\ selected = <<>>
    /\ fig = <<>>
    /\ msg = "none"
    /\ lastOp = "read_csv"

SplitStep ==
    /\ df.cols = "raw"
    /\ df' = SplitDataColumn(df)
    /\ lastOp' = "split_data_column"
    /\ UNCHANGED <<widgets, file_label_text, listbox, log_file, input, colors, selected,
                   fig, msg>>

NextSplit == SplitStep

SpecSplit == InitSplit /\ [][NextSplit]_vars

-----------------------------------------------------------------------------
(* Vocabulary of the properties *)

(* Trim and fold case: the normal form of an identifier. *)
Norm(s) == Upper(Strip(s))

(* A valid line: at least the four schema fields, the first a number. *)
ValidRow(r) == Len(r) >= NumNames /\ IsNumeric(r[1])

ValidRows(lines) ==
    SelectSeq([i \in 1..Len(lines) |-> Tokenize(lines[i])], ValidRow)

(* The rows of the table whose ID equals `signal` in normal form. *)
NormRows(d, signal) ==
    SelectSeq(d.rows, LAMBDA r : r.ID # NoneVal /\ Norm(r.ID) = Norm(signal))

Present(d) == {i \in 1..Len(d.rows) : d.rows[i].Timestamp # NoneVal}

(* The i-th piece of `data` between single spaces, by position. *)
SpaceAt(data) == {p \in 1..Len(data) : data[p] = " "}

NthSpace(data, k) ==
    CHOOSE p \in SpaceAt(data) : Cardinality({q \in SpaceAt(data) : q <= p}) = k

NumPieces(data) == Cardinality(SpaceAt(data)) + 1

NthPiece(data, i) ==
    LET from == IF i = 1 THEN 1 ELSE NthSpace(data, i - 1) + 1
        to   == IF i = NumPieces(data) THEN Len(data) ELSE NthSpace(data, i) - 1
    IN SubSeq(data, from, to)

Plotted == lastOp = "plot_data" /\ msg = "none" /\ selected # <<>> /\ df.rows # <<>>

-----------------------------------------------------------------------------
(* C1: after load_file with a chosen file, the table holds exactly one     *)
(* record per valid line, in file order (timestamp and ID of the k-th      *)
(* valid line in record k); corrupt and truncated lines are dropped and    *)
(* the others are still loaded.                                            *)
C1_OneRecordPerValidLine ==
    (lastOp = "load_file" /\ input.parsed) =>
        LET valid == ValidRows(input.lines)
        IN /\ df.cols = "built"
           /\ Len(df.rows) = Len(valid)
           /\ \A k \in 1..Len(valid) :
                 /\ df.rows[k].Timestamp = Some(ToNumber(valid[k][1]))
                 /\ df.rows[k].ID = valid[k][2]

(* C2: every record built by split_data_column has exactly 8 byte slots;   *)
(* slot i holds the number of the i-th space-separated token of the Data   *)
(* field when that token exists and is a number, and the missing value     *)
(* otherwise; tokens after the 8th are discarded.                          *)
C2_EightByteSlots ==
    df.cols = "built" =>
        \A r \in 1..Len(df.rows) :
            /\ Len(df.rows[r].Byte) = 8
            /\ \A i \in 1..8 :
                 df.rows[r].Byte[i] =
                    IF /\ i <= NumPieces(df.rows[r].Data)
                       /\ IsNumeric(NthPiece(df.rows[r].Data, i))
                    THEN Some(ToNumber(NthPiece(df.rows[r].Data, i)))
                    ELSE NoneVal

(* C2 witness: a split frame whose first Data field has more than 8 tokens *)
(* with a number in slot 8, a ninth numeric token, an unparsable token in  *)
(* slot 2, and whose second record was padded from slot 3 on.              *)
C2_Witness ==
    /\ df.cols = "built"
    /\ lastOp = "split_data_column"
    /\ NumPieces(df.rows[1].Data) > 8
    /\ IsNumeric(NthPiece(df.rows[1].Data, 9))
    /\ df.rows[1].Byte[8] # NoneVal
    /\ df.rows[1].Byte[2] = NoneVal
    /\ df.rows[2].Byte[2] = Some(5)
    /\ df.rows[2].Byte[3] = NoneVal

C4_AbsentIdSkipped ==
    (lastOp = "plot_data" /\ selected # <<>> /\ df.rows # <<>>) =>
        /\ msg = "none"
        /\ Len(fig) = Len(selected)
        /\ \A k \in 1..Len(selected) :
              LET rows == NormRows(df, selected[k])
              IN /\ fig[k].signal = selected[k]
                 /\ fig[k].plotted = (rows # <<>>)
                 /\ Len(fig[k].x) = Len(rows)
                 /\ \A i \in 1..8 : Len(fig[k].y[i]) = Len(rows)

(* C4 witness: the first selected id matches no row of a non-empty table   *)
(* and the second one is plotted.                                          *)
C4_Witness ==
    /\ lastOp = "plot_data"
    /\ df.rows # <<>>
    /\ Len(selected) = 2
    /\ NormRows(df, selected[1]) = <<>>
    /\ NormRows(df, selected[2]) # <<>>
    /\ ~fig[1].plotted
    /\ fig[2].plotted

(* C5 as stated: the x-axis extent of every plotted signal is (minimum     *)
(* timestamp, maximum timestamp) over all rows of the table.               *)
C5_ExtentIsMinMax ==
    Plotted =>
        \A k \in 1..Len(fig) :
            fig[k].plotted =>
                /\ \E i \in Present(df) : df.rows[i].Timestamp = Some(fig[k].xlim[1])
                /\ \E i \in Present(df) : df.rows[i].Timestamp = Some(fig[k].xlim[2])
                /\ \A i \in Present(df) :
                      /\ fig[k].xlim[1] <= df.rows[i].Timestamp[1]
                      /\ df.rows[i].Timestamp[1] <= fig[k].xlim[2]

(* C5 amended: the x-axis limits of every plotted signal are (0, maximum   *)
(* timestamp over all rows of the table), whatever the selection and the   *)
(* order of the rows.                                                      *)
C5_ExtentIsZeroToMax ==
    Plotted =>
        \A k \in 1..Len(fig) :
            fig[k].plotted =>
                /\ fig[k].xlim[1] = 0
                /\ \E i \in Present(df) : df.rows[i].Timestamp = Some(fig[k].xlim[2])
                /\ \A i \in Present(df) : df.rows[i].Timestamp[1] <= fig[k].xlim[2]

(* C5 witness: two signals plotted in one call; the largest timestamp is   *)
(* not in the last row and one signal's own rows all lie below it.         *)
C5_Witness ==
    /\ Plotted
    /\ Len(fig) = 2
    /\ fig[1].plotted /\ fig[2].plotted
    /\ fig[1].xlim = fig[2].xlim
    /\ df.rows[Len(df.rows)].Timestamp[1] < fig[1].xlim[2]
    /\ \E k \in 1..2 : \A j \in 1..Len(fig[k].x) : fig[k].x[j][1] < fig[k].xlim[2]

(* C6: self.df holds the empty table or a completely built one (a number   *)
(* or missing value as timestamp and 8 byte channels in every record),     *)
(* also after a load_file call that reported a failure.                    *)
C6_HandleEmptyOrComplete ==
    \/ df.cols = "none"
    \/ /\ df.cols = "built"
       /\ \A r \in 1..Len(df.rows) : Len(df.rows[r].Byte) = 8

(* C7: a cancelled file dialog leaves the table and the colour map as they *)
(* were, reports no error and does not open the signal-selection window.   *)
C7_CancelIsNoOp ==
    [][(lastOp' = "load_file" /\ log_file' = "") =>
          /\ df' = df
          /\ colors' = colors
          /\ msg' = "none"
          /\ widgets' = widgets
          /\ "signal_listbox" \notin widgets']_vars

(* C7 witness: a dialog was cancelled while a table with rows was held.    *)
C7_Witness ==
    /\ lastOp = "load_file"
    /\ log_file = ""
    /\ msg = "none"
    /\ df.rows # <<>>

(* C8: the series of every selected id that matches rows has the           *)
(* timestamps of the matching rows in table order, and each of its 8       *)
(* channels is as long and holds at position k byte i of the k-th          *)
(* matching row, a missing byte as a missing value.                        *)
C8_SeriesAligned ==
    Plotted =>
        \A k \in 1..Len(fig) :
            LET rows == NormRows(df, selected[k])
            IN rows # <<>> =>
                /\ fig[k].plotted
                /\ fig[k].x = [j \in 1..Len(rows) |-> rows[j].Timestamp]
                /\ DOMAIN fig[k].y = 1..8
                /\ \A i \in 1..8 :
                      fig[k].y[i] = [j \in 1..Len(rows) |-> rows[j].Byte[i]]

(* C8 witness: a plotted series of two rows whose first channel holds a    *)
(* number and a missing value, and one of one row out of a two-row table.  *)
C8_Witness ==
    /\ Plotted
    /\ \E k \in 1..Len(fig) :
          /\ fig[k].plotted
          /\ \/ /\ Len(fig[k].x) = 2
                /\ fig[k].y[1][1] # NoneVal
                /\ fig[k].y[1][2] = NoneVal
             \/ /\ Len(fig[k].x) = 1
                /\ Len(df.rows) = 2
                /\ fig[k].x[1] = df.rows[2].Timestamp
                /\ fig[k].y[1][1] = NoneVal

(* C9: after a load, the listbox holds every identifier of the table       *)
(* exactly once, in ascending order, identifiers taken trimmed.            *)
C9_ListingSortedDistinct ==
    (lastOp = "load_file" /\ "signal_listbox" \in widgets) =>
        /\ {listbox[k] : k \in 1..Len(listbox)} =
              {Strip(df.rows[i].ID) : i \in {j \in 1..Len(df.rows) : df.rows[j].ID # NoneVal}}
        /\ \A k \in 1..(Len(listbox) - 1) : StrLess(listbox[k], listbox[k + 1])

(* C10: clear_data, run from the signal-selection window, completes        *)
(* without error and leaves the table, the listbox and the colour map      *)
(* empty.                                                                  *)
C10_ClearDataCompletes ==
    lastOp = "clear_data" =>
        /\ msg = "none"
        /\ df = EmptyDF
        /\ listbox = <<>>
        /\ DOMAIN colors = {}

====
